---------------------------- MODULE Spec2Model ----------------------------
(***************************************************************************)
(* Next.js data fetching, Pages Router vs App Router: the four examples of *)
(* the repository (blogs: SSG, news: SSR, posts: ISR, profile: CSR) as     *)
(* state machines.  The page functions and components are translated from  *)
(* the snippets; when the host framework runs them (at build time, on      *)
(* every request, on revalidation, after mount) is taken from the README   *)
(* that accompanies the snippets.                                          *)
(***************************************************************************)
EXTENDS Integers, Sequences, FiniteSets, TLC

VARIABLES
    router,       \* "pages" or "app": the routing convention the project uses
    active,       \* the examples that run side by side
    \* ---- the server-rendered pages: blogs (SSG), news (SSR), posts (ISR) ----
    bg,           \* bg[p]: the run of p's data function by a build or a regeneration
    cache,        \* cache[p]: the static page kept for p, or None
    served,       \* served[p]: the latest response served from cache[p], or None
    fetches,      \* fetches[p]: fetches started by builds and regenerations of p
    builds,       \* builds[p]: builds of p started
    req,          \* req[p][r]: the run of p's data function for request r
    reqFetches,   \* reqFetches[p][r]: fetches started for request r
    event,        \* event[p]: what p's latest build, regeneration or cache step did
    \* ---- profile (CSR) ----
    mounted,      \* whether a Profile instance is mounted now
    inst,         \* number of mounts so far; the mounted instance is inst
    user,         \* user[i]: the useState value of instance i
    out,          \* out[i]: what instance i rendered last
    firstOut,     \* firstOut[i]: what instance i rendered on mount
    effect,       \* effect[i]: "none" | "pending" | "ran"
    chain,        \* chain[i]: the promise chain fetch().then(json).then(setUser)
    update,       \* update[i]: the state update queued by setUser, or None
    started,      \* started[i]: fetches of /users/1 started by instance i
    rerenders,    \* re-renders caused from outside the component so far
    lateSetUser,  \* setUser has been invoked for an unmounted instance
    \* ---- the rendering functions applied to an array ----
    arg,          \* the array handed to a component
    shown         \* [comp, html]: the component applied and its result, or None

csrVars    == <<mounted, inst, user, out, firstOut, effect, chain, update,
                started, rerenders, lateSetUser>>
pageVars   == <<bg, cache, served, fetches, builds, req, reqFetches, event>>
renderVars == <<arg, shown>>
vars == <<router, active, pageVars, csrVars, renderVars>>

-----------------------------------------------------------------------------
(* Bounds of the model. *)
MaxLen       == 6   \* longest array handed to a rendering function
MaxItems     == 2   \* longest short array a fetch delivers
MaxMounts    == 2   \* mounts of the profile component
MaxRerenders == 1   \* re-renders of a mounted profile caused from outside
MaxRequests  == 2   \* concurrent requests to a page rendered per request
MaxFetches   == 2   \* builds and regenerations of a static page
MaxAge       == 12  \* seconds the clock runs past a page's generation
MixMounts    == 1   \* mounts, requests and fetches when examples run side by side
MixRequests  == 1
MixFetches   == 2

(* revalidate: 10 *)
Revalidate == 10
(* blogs.slice(0, 5), news.slice(0, 5) *)
SliceEnd == 5

Routers == {"pages", "app"}
Pages   == {"blogs", "news", "posts"}
Examples == Pages \cup {"profile"}
None    == [t |-> "none"]

-----------------------------------------------------------------------------
(* JSON values, as res.json() delivers them. *)
Null      == [t |-> "null"]
Num(n)    == [t |-> "num", n |-> n]
Str(s)    == [t |-> "str", s |-> s]
Bool(b)   == [t |-> "bool", b |-> b]
Obj(f)    == [t |-> "obj", f |-> f]
Arr(a)    == [t |-> "arr", a |-> a]
Undefined == "undefined"

(* A response body that is not JSON. *)
Malformed == [t |-> "malformed"]

Item1 == Obj([id |-> 1, title |-> "t1", body |-> "b1"])
Item2 == Obj([id |-> 2, title |-> "t2", body |-> "b2"])
Items == {Item1, Item2}

SeqsUpTo(S, n) == UNION {[1..k -> S] : k \in 0..n}

(* v.k of JavaScript: undefined when v has no such property. *)
Prop(v, k) == IF v.t = "obj" /\ k \in DOMAIN v.f THEN v.f[k] ELSE Undefined

(* !v is false: JavaScript's truthiness. *)
Truthy(v) ==
    CASE v.t = "null" -> FALSE
      [] v.t = "bool" -> v.b
      [] v.t = "num"  -> v.n # 0
      [] v.t = "str"  -> v.s # ""
      [] OTHER        -> TRUE

Min(a, b) == IF a < b THEN a ELSE b

(* a.slice(start, end) for 0 <= start <= end. *)
Slice(a, start, end) == SubSeq(a, start + 1, Min(end, Len(a)))

Threw(e)   == [t |-> "threw", error |-> e]
IsThrow(x) == x.t = "threw"
Html(h, c) == [t |-> "html", h1 |-> h, children |-> c]
El(tag, key, text) == [tag |-> tag, key |-> key, text |-> text]

(* res.json() wrapped in a catch that returns []. *)
JsonOrEmpty(res) == IF res = Malformed THEN Arr(<<>>) ELSE res

(* res.json(): the parsed value, or a SyntaxError for a body that is not JSON. *)
Json(res) == IF res = Malformed THEN Threw("SyntaxError") ELSE res

-----------------------------------------------------------------------------
(* The page components.  Each takes the parsed JSON value and returns the  *)
(* markup; a value without map / slice makes the call throw a TypeError.   *)

(* Blogs({ blogs }): blogs.map(blog => <div key={blog.id}>{blog.title}</div>) *)
Blogs(blogs) ==
    IF blogs.t # "arr" THEN Threw("TypeError")
    ELSE Html("Blogs", [k \in 1..Len(blogs.a) |->
                 El("div", Prop(blogs.a[k], "id"), Prop(blogs.a[k], "title"))])

(* News({ news }): news.map(item => <div key={item.id}>{item.title}</div>) *)
News(news) ==
    IF news.t # "arr" THEN Threw("TypeError")
    ELSE Html("News", [k \in 1..Len(news.a) |->
                 El("div", Prop(news.a[k], "id"), Prop(news.a[k], "title"))])

(* BlogsPage without the slice. *)
BlogsPageNoSlice(blogs) ==
    IF blogs.t # "arr" THEN Threw("TypeError")
    ELSE Html("SSG Blogs", [k \in 1..Len(blogs.a) |->
                 El("p", Prop(blogs.a[k], "id"), Prop(blogs.a[k], "title"))])

(* BlogsPage: blogs.slice(0, 5).map(post => <p key={post.id}>{post.title}</p>) *)
BlogsPage(blogs) ==
    IF blogs.t # "arr" THEN Threw("TypeError")
    ELSE LET first == Slice(blogs.a, 0, SliceEnd)
         IN  Html("SSG Blogs", [k \in 1..Len(first) |->
                 El("p", Prop(first[k], "id"), Prop(first[k], "title"))])

(* NewsPage: news.slice(0, 5).map(n => <p key={n.id}>{n.body}</p>) *)
NewsPage(news) ==
    IF news.t # "arr" THEN Threw("TypeError")
    ELSE LET first == Slice(news.a, 0, SliceEnd)
         IN  Html("SSR News", [k \in 1..Len(first) |->
                 El("p", Prop(first[k], "id"), Prop(first[k], "body"))])

(* PostsPage: posts.map(post => <p key={post.id}>{post.title}</p>) *)
PostsPage(posts) ==
    IF posts.t # "arr" THEN Threw("TypeError")
    ELSE Html("ISR Posts", [k \in 1..Len(posts.a) |->
                 El("p", Prop(posts.a[k], "id"), Prop(posts.a[k], "title"))])

Components == {"Blogs", "News", "BlogsPage", "NewsPage", "PostsPage"}

Apply(comp, v) ==
    CASE comp = "Blogs"     -> Blogs(v)
      [] comp = "News"      -> News(v)
      [] comp = "BlogsPage" -> BlogsPage(v)
      [] comp = "NewsPage"  -> NewsPage(v)
      [] comp = "PostsPage" -> PostsPage(v)

-----------------------------------------------------------------------------
(* The data functions, applied to the body the fetch delivered.  An await  *)
(* of a rejected promise throws, and nothing catches it.                   *)

Never      == [t |-> "never"]
Seconds(n) == [t |-> "seconds", n |-> n]

(* pages/blogs.js getStaticProps: { props: { blogs } } *)
getStaticPropsBlogs(res) ==
    LET blogs == Json(res)
    IN  IF IsThrow(blogs) THEN blogs
        ELSE [t |-> "props", props |-> blogs, revalidate |-> Never]

(* pages/news.js getServerSideProps: { props: { news } } *)
getServerSideProps(res) ==
    LET news == Json(res)
    IN  IF IsThrow(news) THEN news
        ELSE [t |-> "props", props |-> news, revalidate |-> Never]

(* pages/posts.js getStaticProps: { props: { posts }, revalidate: 10 } *)
getStaticPropsPosts(res) ==
    LET posts == Json(res)
    IN  IF IsThrow(posts) THEN posts
        ELSE [t |-> "props", props |-> posts, revalidate |-> Seconds(Revalidate)]

(* app: getBlogs, getNews, getPosts return res.json() *)
getBlogs(res) == Json(res)
getNews(res)  == Json(res)
getPosts(res) == Json(res)

(* getBlogs fetching with next: { revalidate: 10 }; getPosts without it. *)
BlogsFetchInitRevalidate == [cache |-> "default", revalidate |-> Seconds(Revalidate)]
PostsFetchInitDefault    == [cache |-> "default", revalidate |-> Never]

(* The second argument of fetch in the App Router data functions. *)
BlogsFetchInit == [cache |-> "default", revalidate |-> Never]
NewsFetchInit  == [cache |-> "no-store", revalidate |-> Never]
PostsFetchInit == [cache |-> "default", revalidate |-> Seconds(Revalidate)]

FetchInit(p) ==
    CASE p = "blogs" -> BlogsFetchInit
      [] p = "news"  -> NewsFetchInit
      [] p = "posts" -> PostsFetchInit

(* The data function a Pages Router page exports. *)
BlogsExport == "getStaticProps"
NewsExport  == "getServerSideProps"
PostsExport == "getStaticProps"

Export(p) ==
    CASE p = "blogs" -> BlogsExport
      [] p = "news"  -> NewsExport
      [] p = "posts" -> PostsExport

(* The revalidate key of what getStaticProps returns. *)
StaticRevalidate(p) ==
    CASE p = "blogs" -> getStaticPropsBlogs(Arr(<<>>)).revalidate
      [] p = "news"  -> Never
      [] p = "posts" -> getStaticPropsPosts(Arr(<<>>)).revalidate

(* After how long the page kept for p may be regenerated, or Never. *)
RevalidateOf(rt, p) ==
    IF rt = "pages" THEN StaticRevalidate(p) ELSE FetchInit(p).revalidate

(* When the framework runs p's data function: "dynamic" on every request,  *)
(* "static" at build time only, "isr" at build time and on revalidation.   *)
Strategy(rt, p) ==
    IF (rt = "pages" /\ Export(p) = "getServerSideProps")
       \/ (rt = "app" /\ FetchInit(p).cache = "no-store")
    THEN "dynamic"
    ELSE IF RevalidateOf(rt, p).t = "seconds" THEN "isr" ELSE "static"

(* What the server makes of the body a fetch delivered: the page's markup, *)
(* or the error thrown on the way.  pages/posts.js has no component: the   *)
(* page is the props.                                                      *)
PageOutput(rt, p, res) ==
    IF rt = "pages"
    THEN LET r == CASE p = "blogs" -> getStaticPropsBlogs(res)
                    [] p = "news"  -> getServerSideProps(res)
                    [] p = "posts" -> getStaticPropsPosts(res)
         IN  IF IsThrow(r) THEN r
             ELSE CASE p = "blogs" -> Blogs(r.props)
                    [] p = "news"  -> News(r.props)
                    [] p = "posts" -> [t |-> "props", props |-> r.props]
    ELSE LET d == CASE p = "blogs" -> getBlogs(res)
                    [] p = "news"  -> getNews(res)
                    [] p = "posts" -> getPosts(res)
         IN  IF IsThrow(d) THEN d
             ELSE CASE p = "blogs" -> BlogsPage(d)
                    [] p = "news"  -> NewsPage(d)
                    [] p = "posts" -> PostsPage(d)

-----------------------------------------------------------------------------
(* A run of a data function: idle, waiting for the fetch, holding the      *)
(* response, or done with the page or the error it ended in.               *)
Idle         == [pc |-> "idle"]
Fetching     == [pc |-> "fetching"]
Response(b)  == [pc |-> "response", body |-> b]
Done(b, o)   == [pc |-> "done", body |-> b, result |-> o]
Page(o, b)   == [t |-> "page", html |-> o, data |-> b, age |-> 0]

(* The bodies a fetch may deliver: arrays of up to n items, an array       *)
(* longer than the slices taken, a JSON value that is no array, and a body *)
(* that is not JSON.                                                       *)
LongArray == [k \in 1..(SliceEnd + 1) |-> IF k % 2 = 1 THEN Item1 ELSE Item2]
Bodies(n) ==
    {Arr(a) : a \in SeqsUpTo(Items, n)}
        \cup {Arr(LongArray), Obj([message |-> "not found"]), Malformed}
FewBodies == {Arr(<<Item1>>), Arr(<<Item2, Item1>>), Malformed}
MixBodies == {Arr(<<Item1>>), Malformed}

(* The page kept for p is stale once it is older than its revalidate time. *)
IsStale(age, revalidate) == revalidate.t = "seconds" /\ age > revalidate.n

Free(run) == run.pc \in {"idle", "done"}

(* A build of one page that generates every page. *)
StartBuildAll(p, maxFetches) ==
    /\ Strategy(router, p) # "dynamic"
    /\ [pc |-> "idle"] = bg[p] \/ bg[p].pc = "done"
    /\ fetches[p] < maxFetches
    /\ bg' = [q \in {"blogs", "news", "posts"} |-> [pc |-> "fetching"]]
    /\ fetches' = [q \in {"blogs", "news", "posts"} |-> fetches[q] + 1]
    /\ builds' = [q \in {"blogs", "news", "posts"} |-> builds[q] + 1]
    /\ event' = [q \in {"blogs", "news", "posts"} |-> "build"]
    /\ UNCHANGED <<router, active, cache, served, req, reqFetches, csrVars, renderVars>>

(* next build: a page that is not rendered per request is generated. *)
StartBuild(p, maxFetches) ==
    /\ Strategy(router, p) # "dynamic"
    /\ Free(bg[p])
    /\ fetches[p] < maxFetches
    /\ bg' = [bg EXCEPT ![p] = Fetching]
    /\ fetches' = [fetches EXCEPT ![p] = @ + 1]
    /\ builds' = [builds EXCEPT ![p] = @ + 1]
    /\ event' = [event EXCEPT ![p] = "build"]
    /\ UNCHANGED <<router, active, cache, served, req, reqFetches, csrVars, renderVars>>

(* The fetch of a build or regeneration resolves with a response. *)
BgResolve(p, B) ==
    /\ bg[p].pc = "fetching"
    /\ \E b \in B : bg' = [bg EXCEPT ![p] = Response(b)]
    /\ event' = [event EXCEPT ![p] = "response"]
    /\ UNCHANGED <<router, active, cache, served, fetches, builds, req, reqFetches,
                   csrVars, renderVars>>

(* The fetch of a build or regeneration rejects: the await throws, the     *)
(* data function ends in the error, and the page kept (if any) stays.      *)
BgReject(p) ==
    /\ bg[p].pc = "fetching"
    /\ bg' = [bg EXCEPT ![p] = Done(None, Threw("NetworkError"))]
    /\ event' = [event EXCEPT ![p] = "failed"]
    /\ UNCHANGED <<router, active, cache, served, fetches, builds, req, reqFetches,
                   csrVars, renderVars>>

(* res.json() settles and the page is rendered: the result replaces the    *)
(* page kept, unless the run threw.                                        *)
BgFinish(p) ==
    /\ bg[p].pc = "response"
    /\ LET o == PageOutput(router, p, bg[p].body)
       IN  /\ bg' = [bg EXCEPT ![p] = Done(bg[p].body, o)]
           /\ cache' = IF IsThrow(o) THEN cache
                       ELSE [cache EXCEPT ![p] = Page(o, bg[p].body)]
           /\ event' = [event EXCEPT ![p] = IF IsThrow(o) THEN "failed" ELSE "generated"]
    /\ UNCHANGED <<router, active, served, fetches, builds, req, reqFetches,
                   csrVars, renderVars>>

(* A request to a page that is not rendered per request is served the page *)
(* kept.  When that page is stale and no regeneration runs, the request    *)
(* starts one in the background.                                           *)
RequestCached(p, maxFetches) ==
    /\ Strategy(router, p) # "dynamic"
    /\ cache[p] # None
    /\ LET c == cache[p]
           stale == Strategy(router, p) = "isr"
                       /\ IsStale(c.age, RevalidateOf(router, p))
       IN  /\ served' = [served EXCEPT ![p] = [html |-> c.html, data |-> c.data, age |-> c.age]]
           /\ IF stale /\ Free(bg[p])
              THEN /\ fetches[p] < maxFetches
                   /\ bg' = [bg EXCEPT ![p] = Fetching]
                   /\ fetches' = [fetches EXCEPT ![p] = @ + 1]
                   /\ event' = [event EXCEPT ![p] = "stale"]
              ELSE /\ event' = [event EXCEPT ![p] = IF stale THEN "busy" ELSE "hit"]
                   /\ UNCHANGED <<bg, fetches>>
    /\ UNCHANGED <<router, active, cache, builds, req, reqFetches, csrVars, renderVars>>

(* A request to a page rendered per request runs the data function. *)
RequestStart(p, r) ==
    /\ Strategy(router, p) = "dynamic"
    /\ req[p][r].pc = "idle"
    /\ req' = [req EXCEPT ![p][r] = Fetching]
    /\ reqFetches' = [reqFetches EXCEPT ![p][r] = @ + 1]
    /\ UNCHANGED <<router, active, bg, cache, served, fetches, builds, event,
                   csrVars, renderVars>>

ReqResolve(p, r, B) ==
    /\ req[p][r].pc = "fetching"
    /\ \E b \in B : req' = [req EXCEPT ![p][r] = Response(b)]
    /\ UNCHANGED <<router, active, bg, cache, served, fetches, builds, reqFetches, event,
                   csrVars, renderVars>>

ReqReject(p, r) ==
    /\ req[p][r].pc = "fetching"
    /\ req' = [req EXCEPT ![p][r] = Done(None, Threw("NetworkError"))]
    /\ UNCHANGED <<router, active, bg, cache, served, fetches, builds, reqFetches, event,
                   csrVars, renderVars>>

(* The fetched data kept in a variable all requests share. *)
ReqFinishShared(p, r) ==
    /\ req[p][r].pc = "response"
    /\ LET holders == {q \in 1..MaxRequests : req[p][q].pc = "response"
                           \/ (req[p][q].pc = "done" /\ req[p][q].body # None)}
           first == CHOOSE q \in holders : \A q2 \in holders : q <= q2
       IN  req' = [req EXCEPT ![p][r] =
                      [pc |-> "done", body |-> req[p][r].body,
                       result |-> PageOutput(router, p, req[p][first].body)]]
    /\ UNCHANGED <<router, active, bg, cache, served, fetches, builds, reqFetches, event,
                   csrVars, renderVars>>

(* The response of request r is the page made of the body r's fetch got. *)
ReqFinish(p, r) ==
    /\ req[p][r].pc = "response"
    /\ req' = [req EXCEPT ![p][r] =
                  Done(req[p][r].body, PageOutput(router, p, req[p][r].body))]
    /\ UNCHANGED <<router, active, bg, cache, served, fetches, builds, reqFetches, event,
                   csrVars, renderVars>>

(* d seconds pass: the page kept for p grows older. *)
Tick(p, d) ==
    /\ cache[p] # None
    /\ cache[p].age + d <= MaxAge
    /\ cache' = [cache EXCEPT ![p].age = @ + d]
    /\ UNCHANGED <<router, active, bg, served, fetches, builds, req, reqFetches, event,
                   csrVars, renderVars>>

-----------------------------------------------------------------------------
(* Profile / ProfilePage: the client-side component.                       *)

Loading       == [t |-> "p", text |-> "Loading..."]
UserMarkup(u) == [t |-> "div", h1 |-> Prop(u, "name"), p |-> Prop(u, "email")]

(* Profile testing user === null instead of !user. *)
ProfileNullCheck(u) == IF u = Null THEN Loading ELSE UserMarkup(u)

(* if (!user) return <p>Loading...</p>; return <div>...</div> *)
Profile(u) == IF ~Truthy(u) THEN Loading ELSE UserMarkup(u)

(* useState(null) *)
UseStateInit == Null

(* useEffect called without its second argument. *)
EffectDepsOmitted == [given |-> FALSE, list |-> <<>>]

(* The second argument of useEffect: the list [] . *)
EffectDeps == [given |-> TRUE, list |-> <<>>]

(* Whether React runs the effect after a render: after the first one, and  *)
(* after a later one when no list is given or an element of it changed.    *)
EffectRuns(isMount, prev, next) ==
    \/ isMount
    \/ ~next.given
    \/ \E k \in DOMAIN next.list : next.list[k] # prev.list[k]

(* An effect whose cleanup aborts the fetch. *)
EffectCleanupAbort(c) ==
    IF c.pc \in {"fetching", "response"} THEN [pc |-> "done", body |-> None,
                                                result |-> Threw("AbortError")]
    ELSE c

(* What the effect's cleanup does to the promise chain on unmount: the     *)
(* effect returns no cleanup, so nothing.                                  *)
EffectCleanup(c) == c

(* Object.is of a freshly parsed value and a state value: a parsed object  *)
(* or array is a new one.                                                  *)
ObjectIs(new, old) == new.t \notin {"obj", "arr"} /\ new = old

(* The bodies a fetch of /users/1 may deliver. *)
UserA == Obj([name |-> "Ann", email |-> "ann@example.com"])
UserBodies == {UserA, Obj([message |-> "not found"]), Null, Num(0), Malformed}
FewUserBodies == {UserA, Malformed}

Live(i) == mounted /\ i = inst

(* The component is mounted: first render, the effect is scheduled. *)
Mount(maxMounts) ==
    /\ ~mounted
    /\ inst < maxMounts
    /\ mounted' = TRUE
    /\ inst' = inst + 1
    /\ user' = [user EXCEPT ![inst + 1] = UseStateInit]
    /\ out' = [out EXCEPT ![inst + 1] = Profile(UseStateInit)]
    /\ firstOut' = [firstOut EXCEPT ![inst + 1] = Profile(UseStateInit)]
    /\ effect' = [effect EXCEPT ![inst + 1] =
                     IF EffectRuns(TRUE, EffectDeps, EffectDeps) THEN "pending" ELSE @]
    /\ UNCHANGED <<router, active, pageVars, chain, update, started, rerenders,
                   lateSetUser, renderVars>>

(* React runs the effect: fetch('https://api.example.com/users/1') *)
RunEffect ==
    /\ mounted
    /\ effect[inst] = "pending"
    /\ effect' = [effect EXCEPT ![inst] = "ran"]
    /\ chain' = [chain EXCEPT ![inst] = Fetching]
    /\ started' = [started EXCEPT ![inst] = @ + 1]
    /\ UNCHANGED <<router, active, pageVars, mounted, inst, user, out, firstOut, update,
                   rerenders, lateSetUser, renderVars>>

(* The fetch resolves with a response. *)
FetchResolve(i, B) ==
    /\ chain[i].pc = "fetching"
    /\ \E b \in B : chain' = [chain EXCEPT ![i] = Response(b)]
    /\ UNCHANGED <<router, active, pageVars, mounted, inst, user, out, firstOut, effect,
                   update, started, rerenders, lateSetUser, renderVars>>

(* The fetch rejects: neither then-callback runs, nothing catches it. *)
FetchReject(i) ==
    /\ chain[i].pc = "fetching"
    /\ chain' = [chain EXCEPT ![i] = Done(None, Threw("NetworkError"))]
    /\ UNCHANGED <<router, active, pageVars, mounted, inst, user, out, firstOut, effect,
                   update, started, rerenders, lateSetUser, renderVars>>

(* The chain without its .then(setUser). *)
JsonSettleNoSetUser(i) ==
    /\ chain[i].pc = "response"
    /\ chain' = [chain EXCEPT ![i] = [pc |-> "done", body |-> chain[i].body,
                                      result |-> Json(chain[i].body)]]
    /\ UNCHANGED <<router, active, pageVars, mounted, inst, user, out, firstOut, effect,
                   update, started, rerenders, lateSetUser, renderVars>>

(* res.json() settles.  Rejected: setUser is not called.  Resolved:        *)
(* setUser(value) queues the value for the next render of a mounted        *)
(* instance unless it is the state already; React drops it for an          *)
(* unmounted one.                                                          *)
JsonSettle(i) ==
    /\ chain[i].pc = "response"
    /\ LET v == Json(chain[i].body)
       IN  /\ chain' = [chain EXCEPT ![i] =
                  Done(chain[i].body, IF IsThrow(v) THEN v ELSE [t |-> "setUser", value |-> v])]
           /\ update' = IF ~IsThrow(v) /\ Live(i) /\ ~ObjectIs(v, user[i])
                        THEN [update EXCEPT ![i] = v] ELSE update
           /\ lateSetUser' = (lateSetUser \/ (~IsThrow(v) /\ ~Live(i)))
    /\ UNCHANGED <<router, active, pageVars, mounted, inst, user, out, firstOut, effect,
                   started, rerenders, renderVars>>

(* A render of the mounted instance: the queued update becomes the state,  *)
(* the component function runs, the effect is scheduled if it must run.    *)
Commit ==
    /\ user' = [user EXCEPT ![inst] = IF update[inst] # None THEN update[inst] ELSE @]
    /\ update' = [update EXCEPT ![inst] = None]
    /\ out' = [out EXCEPT ![inst] = Profile(user'[inst])]
    /\ effect' = [effect EXCEPT ![inst] =
                     IF EffectRuns(FALSE, EffectDeps, EffectDeps) THEN "pending" ELSE @]

(* React renders the instance because setUser queued an update. *)
Render ==
    /\ mounted
    /\ effect[inst] # "pending"
    /\ update[inst] # None
    /\ Commit
    /\ UNCHANGED <<router, active, pageVars, mounted, inst, firstOut, chain, started,
                   rerenders, lateSetUser, renderVars>>

(* The instance is rendered again for a reason outside it. *)
Rerender(maxRerenders) ==
    /\ mounted
    /\ effect[inst] # "pending"
    /\ rerenders < maxRerenders
    /\ rerenders' = rerenders + 1
    /\ Commit
    /\ UNCHANGED <<router, active, pageVars, mounted, inst, firstOut, chain, started,
                   lateSetUser, renderVars>>

(* The component is unmounted: its state and queued update go, the effect's *)
(* cleanup (there is none) runs.                                            *)
Unmount ==
    /\ mounted
    /\ effect[inst] # "pending"
    /\ mounted' = FALSE
    /\ user' = [user EXCEPT ![inst] = None]
    /\ out' = [out EXCEPT ![inst] = None]
    /\ update' = [update EXCEPT ![inst] = None]
    /\ chain' = [chain EXCEPT ![inst] = EffectCleanup(@)]
    /\ UNCHANGED <<router, active, pageVars, inst, firstOut, effect, started,
                   rerenders, lateSetUser, renderVars>>

-----------------------------------------------------------------------------
InitPages ==
    /\ bg = [p \in Pages |-> Idle]
    /\ cache = [p \in Pages |-> None]
    /\ served = [p \in Pages |-> None]
    /\ fetches = [p \in Pages |-> 0]
    /\ builds = [p \in Pages |-> 0]
    /\ req = [p \in Pages |-> [r \in 1..MaxRequests |-> Idle]]
    /\ reqFetches = [p \in Pages |-> [r \in 1..MaxRequests |-> 0]]
    /\ event = [p \in Pages |-> "none"]

InitProfile ==
    /\ mounted = FALSE
    /\ inst = 0
    /\ user = [i \in 1..MaxMounts |-> None]
    /\ out = [i \in 1..MaxMounts |-> None]
    /\ firstOut = [i \in 1..MaxMounts |-> None]
    /\ effect = [i \in 1..MaxMounts |-> "none"]
    /\ chain = [i \in 1..MaxMounts |-> Idle]
    /\ update = [i \in 1..MaxMounts |-> None]
    /\ started = [i \in 1..MaxMounts |-> 0]
    /\ rerenders = 0
    /\ lateSetUser = FALSE

InitRender ==
    /\ arg = Arr(<<>>)
    /\ shown = None

Init ==
    /\ router \in Routers
    /\ active \in {S \in SUBSET Examples : Cardinality(S) = 2}
    /\ InitPages
    /\ InitProfile
    /\ InitRender

(* One example on its own. *)
InitOne(e) ==
    /\ router \in Routers
    /\ active = {e}
    /\ InitPages
    /\ InitProfile
    /\ InitRender

(* One page of the three, its requests taken from 1..maxReq. *)
PageStep(p, B, maxFetches, maxReq) ==
    \/ StartBuild(p, maxFetches)
    \/ BgResolve(p, B)
    \/ BgReject(p)
    \/ BgFinish(p)
    \/ RequestCached(p, maxFetches)
    \/ \E r \in 1..maxReq : RequestStart(p, r)
    \/ \E r \in 1..maxReq : ReqResolve(p, r, B)
    \/ \E r \in 1..maxReq : ReqReject(p, r)
    \/ \E r \in 1..maxReq : ReqFinish(p, r)

(* blogs: static site generation *)
NextSSG ==
    \/ StartBuild("blogs", MaxFetches)
    \/ BgResolve("blogs", Bodies(MaxItems))
    \/ BgReject("blogs")
    \/ BgFinish("blogs")
    \/ RequestCached("blogs", MaxFetches)
    \/ Tick("blogs", Revalidate + 1)
SpecSSG == InitOne("blogs") /\ [][NextSSG]_vars

(* news: server-side rendering *)
NextSSR ==
    \/ \E r \in 1..MaxRequests : RequestStart("news", r)
    \/ \E r \in 1..MaxRequests : ReqResolve("news", r, Bodies(MaxItems))
    \/ \E r \in 1..MaxRequests : ReqReject("news", r)
    \/ \E r \in 1..MaxRequests : ReqFinish("news", r)
SpecSSR == InitOne("news") /\ [][NextSSR]_vars

(* posts: incremental static regeneration *)
NextISR ==
    \/ StartBuild("posts", MaxFetches)
    \/ BgResolve("posts", FewBodies)
    \/ BgReject("posts")
    \/ BgFinish("posts")
    \/ RequestCached("posts", MaxFetches)
    \/ Tick("posts", 1)
SpecISR == InitOne("posts") /\ [][NextISR]_vars

(* profile: client-side rendering *)
NextCSR ==
    \/ Mount(MaxMounts)
    \/ RunEffect
    \/ \E i \in 1..MaxMounts : FetchResolve(i, UserBodies)
    \/ \E i \in 1..MaxMounts : FetchReject(i)
    \/ \E i \in 1..MaxMounts : JsonSettle(i)
    \/ Render
    \/ Rerender(MaxRerenders)
    \/ Unmount
SpecCSR == InitOne("profile") /\ [][NextCSR]_vars

(* React runs scheduled effects and renders, and a body that arrived is    *)
(* parsed; whether a fetch ever settles is up to the network.              *)
FairCSR ==
    /\ SpecCSR
    /\ WF_vars(RunEffect)
    /\ WF_vars(Render)
    /\ \A i \in 1..MaxMounts : WF_vars(JsonSettle(i))

(* A component applied to an array. *)
RenderComp(c) ==
    /\ shown' = [comp |-> c, html |-> Apply(c, arg)]
    /\ UNCHANGED <<router, active, pageVars, csrVars, arg>>

InitArrays ==
    /\ router \in Routers
    /\ active = {}
    /\ InitPages
    /\ InitProfile
    /\ arg \in {Arr(a) : a \in SeqsUpTo(Items, MaxLen)}
    /\ shown = None

NextRender == \E c \in Components : RenderComp(c)
SpecRender == InitArrays /\ [][NextRender]_vars

(* Two of the four examples side by side, in any interleaving. *)
On(e) == e \in active
Next ==
    \/ \E p \in Pages : On(p) /\ PageStep(p, MixBodies, MixFetches, MixRequests)
    \/ \E p \in Pages : On(p) /\ Tick(p, Revalidate + 1)
    \/ On("profile") /\ Mount(MixMounts)
    \/ On("profile") /\ RunEffect
    \/ \E i \in 1..MixMounts : On("profile") /\ FetchResolve(i, FewUserBodies)
    \/ \E i \in 1..MixMounts : On("profile") /\ FetchReject(i)
    \/ \E i \in 1..MixMounts : On("profile") /\ JsonSettle(i)
    \/ On("profile") /\ Render
    \/ On("profile") /\ Unmount
Spec == Init /\ [][Next]_vars

-----------------------------------------------------------------------------
(* C8: for a fetched array of length n, BlogsPage and NewsPage render      *)
(* exactly the first min(n, 5) elements in their order (the blog's title,  *)
(* the news item's body); Blogs, News and PostsPage render all n elements  *)
(* in their order; an empty array renders the heading with no item.        *)
C8_RenderedItems ==
    shown # None =>
        LET a == arg.a
            h == shown.html
            n == IF shown.comp \in {"BlogsPage", "NewsPage"}
                 THEN (IF Len(a) < 5 THEN Len(a) ELSE 5)
                 ELSE Len(a)
        IN  /\ h.t = "html"
            /\ Len(h.children) = n
            /\ \A k \in 1..n :
                   /\ h.children[k].key = a[k].f.id
                   /\ h.children[k].text =
                          IF shown.comp = "NewsPage" THEN a[k].f.body ELSE a[k].f.title
            /\ (Len(a) = 0 => h.children = <<>>)

C8_SlicedWitness ==
    /\ shown # None
    /\ shown.comp = "BlogsPage"
    /\ Len(arg.a) > 5
    /\ Len(shown.html.children) = 5

(* C1: a mounted Profile shows "Loading..." exactly when its user state is *)
(* falsy; it shows the name / email markup only of the value its fetch     *)
(* delivered; and the first render of every mount is "Loading...".         *)
C1_LoadingIffNoUser ==
    \A i \in 1..MaxMounts :
        /\ (i <= inst => firstOut[i] = Loading)
        /\ (Live(i) =>
               /\ (out[i] = Loading <=> ~Truthy(user[i]))
               /\ (out[i] # Loading =>
                      /\ out[i] = UserMarkup(user[i])
                      /\ chain[i].pc = "done"
                      /\ chain[i].body = user[i]
                      /\ chain[i].result = [t |-> "setUser", value |-> user[i]]))

C1_UserShownWitness ==
    \E i \in 1..MaxMounts :
        /\ Live(i)
        /\ firstOut[i] = Loading
        /\ out[i] = UserMarkup(UserA)

(* C2: an instance starts its fetch of /users/1 when its effect runs after *)
(* mount and never again: no re-render, the one setUser causes included,   *)
(* starts a second fetch.                                                  *)
C2_OneFetchPerMount ==
    \A i \in 1..MaxMounts :
        started[i] = IF i <= inst /\ effect[i] = "ran" THEN 1 ELSE 0

C2_RerenderedWitness ==
    \E i \in 1..MaxMounts :
        /\ Live(i)
        /\ rerenders > 0
        /\ user[i] = UserA
        /\ started[i] = 1

(* C9: once the fetch of a mounted instance has resolved with a JSON user  *)
(* object, the instance, if it stays mounted, comes to show that user's    *)
(* name and email; and an instance that shows a user never shows           *)
(* "Loading..." again.                                                     *)
C9_EventuallyUser ==
    /\ \A i \in 1..MaxMounts :
           (Live(i) /\ chain[i].pc = "response" /\ chain[i].body.t = "obj")
               ~> (~Live(i) \/ (chain[i].pc = "done" /\ out[i] = UserMarkup(chain[i].body)))
    /\ [][\A i \in 1..MaxMounts :
              (Live(i) /\ Live(i)' /\ out[i] # Loading) => out'[i] # Loading]_vars

C9_ShownAfterFetchWitness ==
    \E i \in 1..MaxMounts :
        /\ Live(i)
        /\ chain[i].pc = "done"
        /\ chain[i].body = UserA
        /\ out[i] = UserMarkup(UserA)

(* C10: unmounting does not cancel the fetch started on mount: it leaves   *)
(* every promise chain as it is, and a chain whose body parses ends in     *)
(* its call of setUser whether or not its instance is still mounted.       *)
SetUserCalled(c) ==
    c.pc = "done" /\ c.result = [t |-> "setUser", value |-> c.body]

C10_NoCancellation ==
    [][/\ (mounted /\ ~mounted' => chain' = chain)
       /\ \A i \in 1..MaxMounts :
              (chain'[i].pc = "done" /\ chain'[i].body \notin {None, Malformed})
                  => SetUserCalled(chain'[i])
       /\ (lateSetUser' /\ ~lateSetUser =>
              \E i \in 1..MaxMounts :
                  ~Live(i) /\ chain[i].pc = "response" /\ SetUserCalled(chain'[i]))]_vars

(* setUser was invoked for an unmounted instance while the fetch of an     *)
(* earlier mount is still in flight.                                       *)
C10_LateSetUserWitness ==
    /\ lateSetUser
    /\ chain[1].pc = "fetching"
    /\ SetUserCalled(chain[2])

(* C6: a rejected fetch or a body that is not JSON ends a server-side data *)
(* function in the error, with no props or markup and no second fetch; in  *)
(* the client component setUser is not called, the user state stays null   *)
(* and the instance keeps showing "Loading...".                            *)
Failed(run) == run.pc = "done" /\ run.body \in {None, Malformed}

C6_NoErrorHandling ==
    /\ \A p \in Pages :
           /\ (Failed(bg[p]) => IsThrow(bg[p].result))
           /\ (Failed(bg[p]) /\ fetches[p] = 1 => cache[p] = None)
           /\ \A r \in 1..MaxRequests :
                  Failed(req[p][r]) => IsThrow(req[p][r].result) /\ reqFetches[p][r] = 1
    /\ \A i \in 1..MaxMounts :
           Failed(chain[i]) =>
               /\ IsThrow(chain[i].result)
               /\ update[i] = None
               /\ started[i] = 1
               /\ (Live(i) => user[i] = Null /\ out[i] = Loading)

C6_FailedWitness ==
    /\ Failed(bg["blogs"])
    /\ bg["blogs"].body = Malformed
    /\ Failed(chain[1])
    /\ chain[1].body = None
    /\ Live(1)
    /\ out[1] = Loading

(* C7: a step changes the fetched data, the rendered output and the fetch  *)
(* counts of at most one of the examples blogs, news, posts and profile.   *)
PageView(p) == <<bg[p], cache[p], served[p], fetches[p], builds[p], req[p],
                 reqFetches[p], event[p]>>
ExampleView(e) == IF e = "profile" THEN <<csrVars>> ELSE PageView(e)

C7_Frame ==
    [][\A e1, e2 \in Examples :
          (e1 # e2 /\ ExampleView(e1)' # ExampleView(e1))
              => ExampleView(e2)' = ExampleView(e2)]_vars

C7_SideBySideWitness ==
    /\ active = {"posts", "profile"}
    /\ event["posts"] = "stale"
    /\ Live(1)
    /\ out[1] = UserMarkup(UserA)

(* C3: the news page is generated on every request: every request that    *)
(* has started has started exactly one fetch of /news of its own, and the  *)
(* HTML a request returns is the page made of the body that request's own  *)
(* fetch got.                                                              *)
NewsHtml(d) == IF router = "pages" THEN News(d) ELSE NewsPage(d)

C3_FreshPerRequest ==
    /\ Strategy(router, "news") = "dynamic"
    /\ \A r \in 1..MaxRequests :
           LET run == req["news"][r]
           IN  /\ reqFetches["news"][r] = IF run.pc = "idle" THEN 0 ELSE 1
               /\ (run.pc = "done" /\ ~IsThrow(run.result)) => run.result = NewsHtml(run.body)

(* Two requests have been answered, each with the page of its own data. *)
C3_TwoAnswersWitness ==
    /\ req["news"][1].pc = "done"
    /\ req["news"][2].pc = "done"
    /\ req["news"][1].result.t = "html"
    /\ req["news"][2].result.t = "html"
    /\ req["news"][1].result # req["news"][2].result

(* C4: the blogs page is generated at build time and served as it was      *)
(* built: every fetch of /blogs is started by a build, a request starts no *)
(* fetch and is answered with the HTML kept from the build, and that HTML  *)
(* is the page made of the body the build's fetch got, however long ago.   *)
BlogsHtml(d) == IF router = "pages" THEN Blogs(d) ELSE BlogsPage(d)

C4_BuildTimeOnly ==
    [][LET b == "blogs"
       IN  /\ fetches'[b] = builds'[b]
           /\ (served'[b] # served[b] =>
                  /\ fetches' = fetches
                  /\ bg' = bg
                  /\ cache' = cache
                  /\ served'[b].html = cache[b].html
                  /\ served'[b].data = cache[b].data)
           /\ (cache'[b] # None => cache'[b].html = BlogsHtml(cache'[b].data))
           /\ ((cache'[b] # None /\ (cache[b] = None \/ cache'[b].html # cache[b].html))
                  => bg[b].pc = "response" /\ cache'[b].data = bg[b].body)]_vars

(* A request is answered from the first build long after it. *)
C4_ServedLaterWitness ==
    /\ fetches["blogs"] = 1
    /\ served["blogs"] # None
    /\ served["blogs"].age > Revalidate
    /\ served["blogs"].html = cache["blogs"].html

=============================================================================
